---- MODULE Spec2Model ----
(***************************************************************************)
(* Model of cropsif-demo/app.py: the memoized raster loader                *)
(* (load_sif_data), the memoized July time series (get_timeseries) and the *)
(* page script (top metrics, images, anomaly map, time-series plot,        *)
(* statistics table), together with the data directory it reads.          *)
(*                                                                         *)
(* A run of the script is a sequence of steps: every decorated call, and   *)
(* inside the loader the os.path.exists test and the rasterio.open / read, *)
(* is a step of its own, so that the data directory can change between     *)
(* any two of them.                                                        *)
(*                                                                         *)
(* Numbers.  A float is modelled as an exact rational [nan, n, d] in       *)
(* lowest terms (d > 0), or NaN.  Raw band samples are integers.  The raw  *)
(* values of RawVals are chosen so that the float64 computation of the     *)
(* code and the exact computation agree on every comparison made here      *)
(* (12500 * 0.0001 = 1.25, 9375 * 0.0001 = 0.9375, ... are exact enough    *)
(* that the percent differences -25, -15 and -5 come out exactly).         *)
(***************************************************************************)
EXTENDS Integers, Sequences, FiniteSets, TLC

\* disk:       the data directory, one entry per (year, doy) key
\* load_cache: the memo table of load_sif_data
\* ts_cache:   the memo table of get_timeseries
\* opened:     the keys whose file rasterio.open has been called on
\* out:        what the current (or last) run of the page has produced
\* run:        the position of the script: the statement it is at, the loop
\*             index and the partial list of get_timeseries, and whether
\*             the loader is between os.path.exists and rasterio.open
\* snap:       history: for each memoized key whose file has changed since
\*             the loader's body ran for it, the file as it was then
\* changes:    the number of changes made to the data directory
\* runs:       the number of runs of the script started
VARIABLES disk, load_cache, ts_cache, opened, out, run, snap, changes, runs

vars == <<disk, load_cache, ts_cache, opened, out, run, snap, changes, runs>>

(***************************************************************************)
(* Program constants                                                       *)
(***************************************************************************)
JULY_DOYS == <<177, 185, 193, 201, 209>>

DOY_LABELS == (177 :> "Jun 25") @@ (185 :> "Jul 3") @@ (193 :> "Jul 11")
              @@ (201 :> "Jul 19") @@ (209 :> "Jul 27")

DROUGHT_YEAR == 2012

NORMAL_YEAR == 2023

YEARS == {DROUGHT_YEAR, NORMAL_YEAR}

DoySet == {JULY_DOYS[i] : i \in 1..Len(JULY_DOYS)}

Keys == YEARS \X DoySet

\* src.read(1) * 0.0001: the scale factor is 1 / ScaleDen
ScaleDen == 10000

\* valid = (data > 0) & (data < 6)
ValidLo == 0

ValidHi == 6

\* if pct_diff < -25 / elif pct_diff < -15 / elif pct_diff < -5
SevereCut == -25

ModerateCut == -15

MildCut == -5

(***************************************************************************)
(* Bounds of the model                                                     *)
(***************************************************************************)
MaxRows == 2

MaxCols == 3

MaxChanges == 1

MaxRuns == 2

\* Raw sample values: negative, zero, values in range (among them the
\* ratios 0.75, 0.85 and 0.95 of 12500), the last value below 6, the value
\* that scales to exactly 6, and one above.
RawVals == <<-1, 0, 9375, 10625, 11875, 12500, 59999, 60000, 60001>>

(***************************************************************************)
(* Floats as exact rationals                                               *)
(***************************************************************************)
Abs(x) == IF x < 0 THEN -x ELSE x

RECURSIVE GCD(_, _)
GCD(a, b) == IF b = 0 THEN a ELSE GCD(b, a % b)

NaN == [nan |-> TRUE, n |-> 0, d |-> 1]

\* n / d in lowest terms, d > 0
Rat(n, d) ==
    LET g == GCD(Abs(n), d)
    IN  [nan |-> FALSE, n |-> n \div g, d |-> d \div g]

Int2F(k) == [nan |-> FALSE, n |-> k, d |-> 1]

\* x < y; every comparison with NaN is False
FLt(x, y) == ~x.nan /\ ~y.nan /\ x.n * y.d < y.n * x.d

\* x > y
FGt(x, y) == FLt(y, x)

FAdd(x, y) ==
    IF x.nan \/ y.nan THEN NaN
    ELSE LET g == GCD(x.d, y.d)
         IN  Rat(x.n * (y.d \div g) + y.n * (x.d \div g), (x.d \div g) * y.d)

FNeg(x) == IF x.nan THEN NaN ELSE [x EXCEPT !.n = -x.n]

FSub(x, y) == FAdd(x, FNeg(y))

\* x * k for an integer k
FMulInt(x, k) ==
    IF x.nan THEN NaN
    ELSE LET g == GCD(Abs(k), x.d)
         IN  Rat(x.n * (k \div g), x.d \div g)

\* x / k for a positive integer k
FDivInt(x, k) ==
    IF x.nan THEN NaN
    ELSE LET g == GCD(Abs(x.n), k)
         IN  Rat(x.n \div g, x.d * (k \div g))

\* x / y.  A zero divisor gives inf or nan in float64 arithmetic; it is
\* folded into NaN here (no masked sample and no masked mean is zero).
FDiv(x, y) ==
    IF x.nan \/ y.nan \/ y.n = 0 THEN NaN
    ELSE LET g1 == GCD(Abs(x.n), Abs(y.n))
             g2 == GCD(x.d, y.d)
             sg == IF y.n < 0 THEN -1 ELSE 1
         IN  Rat(sg * (x.n \div g1) * (y.d \div g2),
                 (x.d \div g2) * (Abs(y.n) \div g1))

(***************************************************************************)
(* The data directory: a file is absent, or a single-band raster of raw    *)
(* integer samples (row-major).                                            *)
(***************************************************************************)
NoFile == [exists |-> FALSE, rows |-> 0, cols |-> 0, data |-> <<>>]

\* The raw band whose cells take the values of RawVals in order,
\* cyclically, from index start on.
RampBand(rows, cols, start) ==
    [exists |-> TRUE, rows |-> rows, cols |-> cols,
     data |-> [i \in 1..(rows * cols) |->
                 RawVals[((start + i - 1) % Len(RawVals)) + 1]]]

(***************************************************************************)
(* load_sif_data                                                           *)
(***************************************************************************)
\* The result None of load_sif_data; a loaded grid has none = FALSE.
None == [none |-> TRUE, rows |-> 0, cols |-> 0, data |-> <<>>]

\* os.path.exists answering True for every path
path_exists_Always(dsk, key) == TRUE

\* os.path.exists(filepath)
path_exists(dsk, key) == dsk[key].exists

\* one sample of src.read(1) * 0.0001
Scale(v) == Rat(v, ScaleDen)

\* valid with the upper bound included: (data > 0) & (data <= 6)
valid_UpperInclusive(x) ==
    FGt(x, Int2F(ValidLo)) /\ ~x.nan /\ ~FGt(x, Int2F(ValidHi))

\* one sample of valid = (data > 0) & (data < 6)
valid(x) == FGt(x, Int2F(ValidLo)) /\ FLt(x, Int2F(ValidHi))

\* one sample of np.where(valid, data, np.nan)
Mask(x) == IF valid(x) THEN x ELSE NaN

\* The body of load_sif_data once the file is known to exist: read band 1,
\* scale, mask; the shape is the band's.
ReadScaled(file) ==
    [none |-> FALSE, rows |-> file.rows, cols |-> file.cols,
     data |-> [i \in 1..Len(file.data) |-> Mask(Scale(file.data[i]))]]

\* The undecorated function body run with nothing acting between its
\* statements: the unmemoized read of the file of key as it is in dsk.
LoadBody(dsk, key) ==
    IF ~path_exists(dsk, key) THEN None ELSE ReadScaled(dsk[key])

\* a memo key that leaves the day of year out
LoadCacheKey_YearOnly(year, doy) == <<year, JULY_DOYS[1]>>

\* The key st.cache_data memoizes a call of load_sif_data under: its
\* arguments.
LoadCacheKey(year, doy) == <<year, doy>>

(***************************************************************************)
(* get_timeseries                                                          *)
(***************************************************************************)
\* A series entry: None, or a float.
NoneEntry == [none |-> TRUE, val |-> NaN]

Entry(x) == [none |-> FALSE, val |-> x]

RECURSIVE SumValid(_, _)
SumValid(data, i) ==
    IF i = 0 THEN Int2F(0)
    ELSE IF data[i].nan THEN SumValid(data, i - 1)
         ELSE FAdd(SumValid(data, i - 1), data[i])

CountValid(data) == Cardinality({i \in 1..Len(data) : ~data[i].nan})

\* the sum of the valid samples divided by the number of all samples
nanmean_CountsAll(grid) ==
    IF CountValid(grid.data) = 0 THEN NaN
    ELSE FDivInt(SumValid(grid.data, Len(grid.data)), Len(grid.data))

\* np.nanmean(grid): the mean of the samples that are not NaN; NaN (with a
\* RuntimeWarning, no exception) when there is none.
nanmean(grid) ==
    IF CountValid(grid.data) = 0 THEN NaN
    ELSE FDivInt(SumValid(grid.data, Len(grid.data)), CountValid(grid.data))

(***************************************************************************)
(* The page script                                                         *)
(***************************************************************************)
\* a guard that tests the 2012 grid only
MetricsGuard_FirstOnly(a, b) == ~a.none

\* if sif_2012 is not None and sif_2023 is not None:   (top metrics)
MetricsGuard(a, b) == ~a.none /\ ~b.none

\* if sif_2023 is not None:  /  if sif_2012 is not None:   (the two images)
ImageGuard(g) == ~g.none

\* if sif_2012 is not None and sif_2023 is not None:   (anomaly map)
AnomalyGuard(a, b) == ~a.none /\ ~b.none

\* ((x - y) / y) * 100
PercentOf(x, y) == FMulInt(FDiv(FSub(x, y), y), 100)

\* the chain with <= at the first cutoff
stress_level_SevereInclusive(p) ==
    IF ~p.nan /\ ~FGt(p, Int2F(SevereCut)) THEN "SEVERE"
    ELSE IF FLt(p, Int2F(ModerateCut)) THEN "MODERATE"
    ELSE IF FLt(p, Int2F(MildCut)) THEN "MILD"
    ELSE "NORMAL"

\* the if / elif / elif / else chain on pct_diff
stress_level(p) ==
    IF FLt(p, Int2F(SevereCut)) THEN "SEVERE"
    ELSE IF FLt(p, Int2F(ModerateCut)) THEN "MODERATE"
    ELSE IF FLt(p, Int2F(MildCut)) THEN "MILD"
    ELSE "NORMAL"

NoMetrics ==
    [shown |-> FALSE, mean_2012 |-> NaN, mean_2023 |-> NaN, pct_diff |-> NaN,
     stress_level |-> "", date |-> "", err |-> "none"]

\* The top-metrics block.  np.nanmean applied to None raises.
TopMetrics(a, b, selected_doy) ==
    IF ~MetricsGuard(a, b) THEN NoMetrics
    ELSE IF a.none \/ b.none THEN [NoMetrics EXCEPT !.err = "TypeError"]
    ELSE LET m12 == nanmean(a)
             m23 == nanmean(b)
             p == PercentOf(m12, m23)
         IN  [shown |-> TRUE, mean_2012 |-> m12, mean_2023 |-> m23,
              pct_diff |-> p, stress_level |-> stress_level(p),
              date |-> DOY_LABELS[selected_doy], err |-> "none"]

\* axes[.].imshow(grid): drawn / not drawn; imshow(None) raises.
Image(g) ==
    IF ~ImageGuard(g) THEN [drawn |-> FALSE, err |-> "none"]
    ELSE IF g.none THEN [drawn |-> FALSE, err |-> "TypeError"]
    ELSE [drawn |-> TRUE, err |-> "none"]

Max(x, y) == IF x >= y THEN x ELSE y

At(g, i, j) == g.data[(i - 1) * g.cols + j]

\* numpy broadcasting of two 2-D operands: per axis the sizes are equal or
\* one of them is 1; an axis of size 1 is repeated.
Broadcastable(a, b) ==
    /\ a.rows = b.rows \/ a.rows = 1 \/ b.rows = 1
    /\ a.cols = b.cols \/ a.cols = 1 \/ b.cols = 1

BAt(g, i, j) ==
    At(g, IF g.rows = 1 THEN 1 ELSE i, IF g.cols = 1 THEN 1 ELSE j)

\* the anomaly taken relative to the 2012 sample instead of the 2023 one
pct_anomaly_OverFirst(a, b) ==
    LET rows == Max(a.rows, b.rows)
        cols == Max(a.cols, b.cols)
    IN  [none |-> FALSE, rows |-> rows, cols |-> cols,
         data |-> [p \in 1..(rows * cols) |->
                     LET i == ((p - 1) \div cols) + 1
                         j == ((p - 1) % cols) + 1
                     IN  FMulInt(FDiv(FSub(BAt(a, i, j), BAt(b, i, j)),
                                      BAt(a, i, j)), 100)]]

\* pct_anomaly = ((sif_2012 - sif_2023) / sif_2023) * 100, sample-wise
pct_anomaly(a, b) ==
    LET rows == Max(a.rows, b.rows)
        cols == Max(a.cols, b.cols)
    IN  [none |-> FALSE, rows |-> rows, cols |-> cols,
         data |-> [p \in 1..(rows * cols) |->
                     LET i == ((p - 1) \div cols) + 1
                         j == ((p - 1) % cols) + 1
                     IN  PercentOf(BAt(a, i, j), BAt(b, i, j))]]

\* The anomaly-map block: None - array raises TypeError; operands that
\* cannot be broadcast together raise ValueError.
AnomalyMap(a, b) ==
    IF ~AnomalyGuard(a, b) THEN [shown |-> FALSE, map |-> None, err |-> "none"]
    ELSE IF a.none \/ b.none
         THEN [shown |-> FALSE, map |-> None, err |-> "TypeError"]
    ELSE IF ~Broadcastable(a, b)
         THEN [shown |-> FALSE, map |-> None, err |-> "ValueError"]
    ELSE [shown |-> TRUE, map |-> pct_anomaly(a, b), err |-> "none"]

\* [v if v is not None else np.nan for v in ts]
Clean(ts) == [i \in 1..Len(ts) |-> IF ~ts[i].none THEN ts[i].val ELSE NaN]

\* all(v is not None for v in ts_2012) and all(v is not None for v in ts_2023)
FillGuard(ts12, ts23) ==
    /\ \A i \in 1..Len(ts12) : ~ts12[i].none
    /\ \A i \in 1..Len(ts23) : ~ts23[i].none

\* Python truth value of a series entry: None and 0.0 are false, every
\* other float (nan included) is true.
Truthy(e) == ~e.none /\ (e.val.nan \/ e.val.n # 0)

\* if ts_2012[i] and ts_2023[i]:
RowGuard(e12, e23) == Truthy(e12) /\ Truthy(e23)

\* The statistics-table loop from position i on.  A row keeps the numbers
\* its strings are formatted from.
RECURSIVE StatsLoop(_, _, _, _)
StatsLoop(ts12, ts23, i, rows) ==
    IF i > Len(JULY_DOYS) THEN rows
    ELSE IF RowGuard(ts12[i], ts23[i])
         THEN StatsLoop(ts12, ts23, i + 1,
                  Append(rows,
                         [Date |-> DOY_LABELS[JULY_DOYS[i]],
                          sif_2023 |-> ts23[i].val,
                          sif_2012 |-> ts12[i].val,
                          Anomaly |-> PercentOf(ts12[i].val, ts23[i].val)]))
         ELSE StatsLoop(ts12, ts23, i + 1, rows)

stats_data(ts12, ts23) == StatsLoop(ts12, ts23, 1, <<>>)

NoRight ==
    [done |-> FALSE, ts_2012_clean |-> <<>>, ts_2023_clean |-> <<>>,
     fill |-> FALSE, stats_data |-> <<>>]

\* The plot and the table of the right column.
RightColumn(ts12, ts23) ==
    [done |-> TRUE,
     ts_2012_clean |-> Clean(ts12), ts_2023_clean |-> Clean(ts23),
     fill |-> FillGuard(ts12, ts23),
     stats_data |-> stats_data(ts12, ts23)]

\* What a run has produced so far.  done: the statements completed;
\* error: the exception that ended the run; finished: the script reached
\* its end.
NoRun ==
    [ran |-> FALSE, selected_doy |-> 0, sif_2012 |-> None, sif_2023 |-> None,
     metrics |-> NoMetrics, image_2023 |-> FALSE, image_2012 |-> FALSE,
     anomaly |-> FALSE, pct_anomaly |-> None,
     ts_2012 |-> <<>>, ts_2023 |-> <<>>, right |-> NoRight,
     done |-> {}, error |-> "none", finished |-> FALSE]

(***************************************************************************)
(* The position of the script                                              *)
(***************************************************************************)
\* at: "idle" (no run in progress), "load12", "load23" (the two loader
\* calls of the selected date), "metrics", "images", "anomaly" (the blocks
\* of the left column), "ts12", "ts23" (the two get_timeseries calls; i = 0
\* at the call itself, i in 1..5 at the loader call of the i-th day inside
\* the loop of its body, i = 6 at its return), "right".
Idle == [at |-> "idle", i |-> 0, opening |-> FALSE, values |-> <<>>]

AtPos(pos) == [Idle EXCEPT !.at = pos]

\* the year of the get_timeseries call in progress
TsYear == IF run.at = "ts12" THEN DROUGHT_YEAR ELSE NORMAL_YEAR

\* the script is at a call of load_sif_data
InLoad ==
    \/ run.at \in {"load12", "load23"}
    \/ run.at \in {"ts12", "ts23"} /\ run.i >= 1 /\ run.i <= Len(JULY_DOYS)

\* the arguments of that call
CurKey ==
    IF run.at = "load12" THEN <<DROUGHT_YEAR, out.selected_doy>>
    ELSE IF run.at = "load23" THEN <<NORMAL_YEAR, out.selected_doy>>
    ELSE <<TsYear, JULY_DOYS[run.i]>>

\* The call of load_sif_data in progress returns ret to its caller: the
\* script (sif_2012, sif_2023), or the loop of get_timeseries, which appends
\* the mean or None and goes on to the next day.
Returned(ret) ==
    IF run.at = "load12"
    THEN /\ out' = [out EXCEPT !.sif_2012 = ret, !.done = @ \cup {"load12"}]
         /\ run' = AtPos("load23")
    ELSE IF run.at = "load23"
    THEN /\ out' = [out EXCEPT !.sif_2023 = ret, !.done = @ \cup {"load23"}]
         /\ run' = AtPos("metrics")
    ELSE LET v == IF ~ret.none THEN Entry(nanmean(ret)) ELSE NoneEntry
         IN  /\ run' = [run EXCEPT !.i = run.i + 1,
                                   !.values = Append(run.values, v),
                                   !.opening = FALSE]
             /\ UNCHANGED out

\* An exception err ends the run.
Raised(err) ==
    /\ out' = [out EXCEPT !.error = err]
    /\ run' = Idle

(***************************************************************************)
(* The data directories the model starts from                              *)
(***************************************************************************)
BandParams ==
    [rows : 1..MaxRows, cols : 1..MaxCols, start : 0..(Len(RawVals) - 1)]

DoyIndex(doy) == CHOOSE i \in 1..Len(JULY_DOYS) : JULY_DOYS[i] = doy

\* The directory in which the files of 2012 are ramp bands of parameters
\* pA and those of 2023 of parameters pB, the start index advancing by one
\* per date, and the keys of missing have no file.
DiskOf(pA, pB, missing) ==
    [k \in Keys |->
        IF k \in missing THEN NoFile
        ELSE LET p == IF k[1] = DROUGHT_YEAR THEN pA ELSE pB
             IN  RampBand(p.rows, p.cols, p.start + DoyIndex(k[2]) - 1)]

DefaultA == [rows |-> 1, cols |-> 2, start |-> 2]

DefaultB == [rows |-> 1, cols |-> 2, start |-> 5]

SameShape(p, q) == p.rows = q.rows /\ p.cols = q.cols

\* All files present: every pair of contents of one shape, and every pair
\* of shapes; and every combination of present and absent files.
ParamPairs ==
    {pq \in BandParams \X BandParams :
        \/ SameShape(pq[1], pq[2])
        \/ pq[1].start = DefaultA.start /\ pq[2].start = DefaultA.start}

Disks ==
    {DiskOf(pq[1], pq[2], {}) : pq \in ParamPairs}
    \cup {DiskOf(DefaultA, DefaultB, m) : m \in SUBSET Keys}

\* what a changed file may become
ChangeFiles == {NoFile, RampBand(1, 1, 5)}

EmptyFn == [k \in {} |-> None]

InitRest ==
    /\ load_cache = EmptyFn
    /\ ts_cache = EmptyFn
    /\ opened = {}
    /\ out = NoRun
    /\ run = Idle
    /\ snap = EmptyFn
    /\ changes = 0
    /\ runs = 0

Init == disk \in Disks /\ InitRest

InitChange ==
    /\ disk \in {DiskOf(DefaultA, DefaultB, m) : m \in {{}, Keys}}
    /\ InitRest

(***************************************************************************)
(* Actions                                                                 *)
(***************************************************************************)
\* The user selects a date: the script starts from the top, the page empty.
SelectDate(selected_doy) ==
    /\ run.at = "idle"
    /\ runs < MaxRuns
    /\ runs' = runs + 1
    /\ out' = [NoRun EXCEPT !.ran = TRUE, !.selected_doy = selected_doy]
    /\ run' = AtPos("load12")
    /\ UNCHANGED <<disk, load_cache, ts_cache, opened, snap, changes>>

\* load_sif_data(year, doy), memo hit: the stored result is returned, the
\* body does not run.
LoadHit ==
    /\ InLoad /\ ~run.opening
    /\ LoadCacheKey(CurKey[1], CurKey[2]) \in DOMAIN load_cache
    /\ Returned(load_cache[LoadCacheKey(CurKey[1], CurKey[2])])
    /\ UNCHANGED <<disk, load_cache, ts_cache, opened, snap, changes, runs>>

\* memo miss, os.path.exists(filepath) is False: return None; the result is
\* memoized.
LoadAbsent ==
    /\ InLoad /\ ~run.opening
    /\ LoadCacheKey(CurKey[1], CurKey[2]) \notin DOMAIN load_cache
    /\ ~path_exists(disk, CurKey)
    /\ load_cache' = (LoadCacheKey(CurKey[1], CurKey[2]) :> None) @@ load_cache
    /\ Returned(None)
    /\ UNCHANGED <<disk, ts_cache, opened, snap, changes, runs>>

\* memo miss, os.path.exists(filepath) is True: the body goes on to
\* rasterio.open.
LoadExists ==
    /\ InLoad /\ ~run.opening
    /\ LoadCacheKey(CurKey[1], CurKey[2]) \notin DOMAIN load_cache
    /\ path_exists(disk, CurKey)
    /\ run' = [run EXCEPT !.opening = TRUE]
    /\ UNCHANGED <<disk, load_cache, ts_cache, opened, out, snap, changes, runs>>

\* rasterio.open(filepath), src.read(1), scale, mask, return: the file is
\* read as it is now; the result is memoized.
OpenRead ==
    /\ run.opening
    /\ disk[CurKey].exists
    /\ opened' = opened \cup {CurKey}
    /\ load_cache' = (LoadCacheKey(CurKey[1], CurKey[2])
                        :> ReadScaled(disk[CurKey])) @@ load_cache
    /\ Returned(ReadScaled(disk[CurKey]))
    /\ UNCHANGED <<disk, ts_cache, snap, changes, runs>>

\* rasterio.open(filepath) on a file that is gone since the os.path.exists
\* test: RasterioIOError; nothing is memoized, the run ends.
OpenFail ==
    /\ run.opening
    /\ ~disk[CurKey].exists
    /\ opened' = opened \cup {CurKey}
    /\ Raised("RasterioIOError")
    /\ UNCHANGED <<disk, load_cache, ts_cache, snap, changes, runs>>

\* The top-metrics block.
ShowMetrics ==
    /\ run.at = "metrics"
    /\ LET m == TopMetrics(out.sif_2012, out.sif_2023, out.selected_doy)
       IN  IF m.err # "none" THEN Raised(m.err)
           ELSE /\ out' = [out EXCEPT !.metrics = m,
                                      !.done = @ \cup {"metrics"}]
                /\ run' = AtPos("images")
    /\ UNCHANGED <<disk, load_cache, ts_cache, opened, snap, changes, runs>>

\* The two images: 2023 on the left axis, 2012 on the right one.
ShowImages ==
    /\ run.at = "images"
    /\ LET im23 == Image(out.sif_2023)
           im12 == Image(out.sif_2012)
       IN  IF im23.err # "none" THEN Raised(im23.err)
           ELSE IF im12.err # "none" THEN Raised(im12.err)
           ELSE /\ out' = [out EXCEPT !.image_2023 = im23.drawn,
                                      !.image_2012 = im12.drawn,
                                      !.done = @ \cup {"images"}]
                /\ run' = AtPos("anomaly")
    /\ UNCHANGED <<disk, load_cache, ts_cache, opened, snap, changes, runs>>

\* The anomaly-map block.
ShowAnomaly ==
    /\ run.at = "anomaly"
    /\ LET an == AnomalyMap(out.sif_2012, out.sif_2023)
       IN  IF an.err # "none" THEN Raised(an.err)
           ELSE /\ out' = [out EXCEPT !.anomaly = an.shown,
                                      !.pct_anomaly = an.map,
                                      !.done = @ \cup {"anomaly"}]
                /\ run' = AtPos("ts12")
    /\ UNCHANGED <<disk, load_cache, ts_cache, opened, snap, changes, runs>>

\* get_timeseries(year), memo hit: the stored list is returned.
SeriesHit ==
    /\ run.at \in {"ts12", "ts23"} /\ run.i = 0
    /\ TsYear \in DOMAIN ts_cache
    /\ out' = IF run.at = "ts12"
              THEN [out EXCEPT !.ts_2012 = ts_cache[TsYear],
                               !.done = @ \cup {"ts12"}]
              ELSE [out EXCEPT !.ts_2023 = ts_cache[TsYear],
                               !.done = @ \cup {"ts23"}]
    /\ run' = IF run.at = "ts12" THEN AtPos("ts23") ELSE AtPos("right")
    /\ UNCHANGED <<disk, load_cache, ts_cache, opened, snap, changes, runs>>

\* get_timeseries(year), memo miss: the body starts, values = [].
SeriesMiss ==
    /\ run.at \in {"ts12", "ts23"} /\ run.i = 0
    /\ TsYear \notin DOMAIN ts_cache
    /\ run' = [run EXCEPT !.i = 1, !.values = <<>>]
    /\ UNCHANGED <<disk, load_cache, ts_cache, opened, out, snap, changes, runs>>

\* get_timeseries(year), the loop is over: return values; the list is
\* memoized under the year and handed to the script.
SeriesReturn ==
    /\ run.at \in {"ts12", "ts23"} /\ run.i > Len(JULY_DOYS)
    /\ ts_cache' = (TsYear :> run.values) @@ ts_cache
    /\ out' = IF run.at = "ts12"
              THEN [out EXCEPT !.ts_2012 = run.values,
                               !.done = @ \cup {"ts12"}]
              ELSE [out EXCEPT !.ts_2023 = run.values,
                               !.done = @ \cup {"ts23"}]
    /\ run' = IF run.at = "ts12" THEN AtPos("ts23") ELSE AtPos("right")
    /\ UNCHANGED <<disk, load_cache, opened, snap, changes, runs>>

\* The plot and the statistics table; the script ends.
ShowRight ==
    /\ run.at = "right"
    /\ out' = [out EXCEPT !.right = RightColumn(out.ts_2012, out.ts_2023),
                          !.done = @ \cup {"right"},
                          !.finished = TRUE]
    /\ run' = Idle
    /\ UNCHANGED <<disk, load_cache, ts_cache, opened, snap, changes, runs>>

\* The script is at a point where the framework can stop it: a display call
\* (st.metric, st.pyplot, st.subheader, st.table, ...), or the entry or the
\* exit of a decorated call, where @st.cache_data sets and clears its
\* spinner.  Inside the loader's body, between os.path.exists and
\* rasterio.open, there is none.
AtDisplay == run.at # "idle" /\ ~run.opening

\* The user moves the slider while the script runs: the framework stops the
\* run and starts the script again from the top.  What was memoized stays;
\* the partial list of a get_timeseries in progress is dropped; what the
\* stopped run had shown is replaced.
Rerun(selected_doy) ==
    /\ AtDisplay
    /\ runs < MaxRuns
    /\ runs' = runs + 1
    /\ out' = [NoRun EXCEPT !.ran = TRUE, !.selected_doy = selected_doy]
    /\ run' = AtPos("load12")
    /\ UNCHANGED <<disk, load_cache, ts_cache, opened, snap, changes>>

\* The environment: a data file appears, disappears or changes content.
FileChange(k, f) ==
    /\ changes < MaxChanges
    /\ f # disk[k]
    /\ disk' = [disk EXCEPT ![k] = f]
    /\ changes' = changes + 1
    /\ snap' = IF k \in DOMAIN load_cache /\ k \notin DOMAIN snap
               THEN (k :> disk[k]) @@ snap
               ELSE snap
    /\ UNCHANGED <<load_cache, ts_cache, opened, out, run, runs>>

\* The steps of the script, the environment doing nothing: no run is stopped,
\* and with static files no file is gone between the os.path.exists test and
\* rasterio.open (OpenFail is never enabled).
Next ==
    \/ \E d \in DoySet : SelectDate(d)
    \/ LoadHit
    \/ LoadAbsent
    \/ LoadExists
    \/ OpenRead
    \/ ShowMetrics
    \/ ShowImages
    \/ ShowAnomaly
    \/ SeriesHit
    \/ SeriesMiss
    \/ SeriesReturn
    \/ ShowRight

\* The steps of the script, and the environment acting between any two:
\* it changes a file, or stops the run and starts another.
NextChange ==
    \/ \E d \in DoySet : SelectDate(d)
    \/ LoadHit
    \/ LoadAbsent
    \/ LoadExists
    \/ OpenRead
    \/ ShowMetrics
    \/ ShowImages
    \/ ShowAnomaly
    \/ SeriesHit
    \/ SeriesMiss
    \/ SeriesReturn
    \/ ShowRight
    \/ \E d \in DoySet : Rerun(d)
    \/ OpenFail
    \/ \E k \in Keys, f \in ChangeFiles : FileChange(k, f)

\* the data files are static
Spec == Init /\ [][Next]_vars

\* the data files change under the running app
SpecChange == InitChange /\ [][NextChange]_vars

(***************************************************************************)
(* Properties                                                              *)
(***************************************************************************)
SelKey(year) == <<year, out.selected_doy>>

\* the raw sample v scales to a value strictly between 0 and 6
RawInRange(v) == 0 < v /\ v < 60000

\* the float x is exactly v * 0.0001
IsScaled(x, v) == ~x.nan /\ x.n * 10000 = v * x.d

\* C1: for every raw sample v of an existing file, the loaded grid holds
\* v * 0.0001 at that position when 0 < v * 0.0001 < 6 and NaN otherwise
\* (so a scaled 0 and a scaled 6 are masked), and the grid has the shape of
\* the raw band.
C1_LoadScalesAndMasks ==
    \A k \in DOMAIN load_cache :
        disk[k].exists =>
            LET g == load_cache[k]
                raw == disk[k].data
            IN  /\ ~g.none
                /\ g.rows = disk[k].rows
                /\ g.cols = disk[k].cols
                /\ Len(g.data) = Len(raw)
                /\ \A i \in 1..Len(raw) :
                      IF RawInRange(raw[i]) THEN IsScaled(g.data[i], raw[i])
                      ELSE g.data[i].nan

\* a loaded grid in which the raw 60000 (scaled: exactly 6) is masked next
\* to a kept 59999, and one in which the raw 0 is masked next to a kept 9375
C1_Witness ==
    /\ \E k \in DOMAIN load_cache :
          \E i, j \in 1..Len(disk[k].data) :
              /\ disk[k].exists
              /\ disk[k].data[i] = 60000 /\ load_cache[k].data[i].nan
              /\ disk[k].data[j] = 59999 /\ ~load_cache[k].data[j].nan
    /\ \E k \in DOMAIN load_cache :
          \E i, j \in 1..Len(disk[k].data) :
              /\ disk[k].exists
              /\ disk[k].data[i] = 0 /\ load_cache[k].data[i].nan
              /\ disk[k].data[j] = 9375 /\ ~load_cache[k].data[j].nan

\* C2: for every key whose file does not exist, load_sif_data returns None
\* and raises nothing, and no open of the file is attempted: not by the
\* call in progress, not by any earlier one.
C2_AbsentIsNone ==
    /\ out.error # "RasterioIOError"
    /\ \A k \in Keys :
        ~disk[k].exists =>
            /\ k \notin opened
            /\ ~(run.opening /\ CurKey = k)
            /\ k \in DOMAIN load_cache => load_cache[k] = None
            /\ "load12" \in out.done /\ k = SelKey(DROUGHT_YEAR) =>
                  out.sif_2012 = None
            /\ "load23" \in out.done /\ k = SelKey(NORMAL_YEAR) =>
                  out.sif_2023 = None

\* a run has loaded an absent key (None is returned and memoized) and
\* opened the file of another
C2_Witness ==
    /\ "load12" \in out.done
    /\ ~disk[SelKey(DROUGHT_YEAR)].exists
    /\ SelKey(DROUGHT_YEAR) \in DOMAIN load_cache
    /\ out.sif_2012 = None
    /\ SelKey(NORMAL_YEAR) \in opened

\* C3: for a numeric summary percent p = n / d the classification is SEVERE
\* iff p < -25, MODERATE iff -25 <= p < -15, MILD iff -15 <= p < -5 and
\* NORMAL iff p >= -5.
C3_StressLevel ==
    out.ran /\ out.metrics.shown /\ ~out.metrics.pct_diff.nan =>
        LET n == out.metrics.pct_diff.n
            d == out.metrics.pct_diff.d
            lvl == out.metrics.stress_level
        IN  /\ lvl \in {"SEVERE", "MODERATE", "MILD", "NORMAL"}
            /\ lvl = "SEVERE" <=> n < -25 * d
            /\ lvl = "MODERATE" <=> -25 * d <= n /\ n < -15 * d
            /\ lvl = "MILD" <=> -15 * d <= n /\ n < -5 * d
            /\ lvl = "NORMAL" <=> n >= -5 * d

\* the summary percent is exactly -25 and the classification is MODERATE
C3_Witness ==
    /\ out.ran
    /\ out.metrics.shown
    /\ out.metrics.pct_diff = Int2F(-25)
    /\ out.metrics.stress_level = "MODERATE"

\* the other two cutoffs, reached too
C3_WitnessMild ==
    /\ out.ran /\ out.metrics.shown
    /\ out.metrics.pct_diff = Int2F(-15)
    /\ out.metrics.stress_level = "MILD"

C3_WitnessNormal ==
    /\ out.ran /\ out.metrics.shown
    /\ out.metrics.pct_diff = Int2F(-5)
    /\ out.metrics.stress_level = "NORMAL"

\* both grids of the selected date are loaded
BothShown ==
    /\ {"load12", "load23"} \subseteq out.done
    /\ ~out.sif_2012.none /\ ~out.sif_2023.none

SameDims(a, b) == a.rows = b.rows /\ a.cols = b.cols

\* the run is over
RunOver == out.ran /\ run.at = "idle"

\* C6: for two loaded grids of the same shape the anomaly map has that
\* shape; a sample is NaN if the sample of either grid there is NaN and
\* (a - b) / b * 100 otherwise; the divisor is never zero, every loaded
\* sample that is not NaN being strictly positive.
C6_AnomalyMap ==
    BothShown /\ SameDims(out.sif_2012, out.sif_2023) =>
        LET a == out.sif_2012
            b == out.sif_2023
            m == out.pct_anomaly
        IN  /\ \A i \in 1..Len(b.data) : ~b.data[i].nan => b.data[i].n > 0
            /\ RunOver => "anomaly" \in out.done
            /\ "anomaly" \in out.done =>
                  /\ out.anomaly
                  /\ ~m.none
                  /\ SameDims(m, a)
                  /\ Len(m.data) = Len(a.data)
                  /\ \A i \in 1..Len(a.data) :
                        IF a.data[i].nan \/ b.data[i].nan THEN m.data[i].nan
                        ELSE m.data[i] =
                               FMulInt(FDiv(FSub(a.data[i], b.data[i]),
                                            b.data[i]), 100)

\* two grids of one shape with several samples: at one position the 2012
\* sample is NaN and the 2023 sample is not, at another both are valid and
\* the anomaly is not zero
C6_Witness ==
    /\ BothShown
    /\ "anomaly" \in out.done
    /\ SameDims(out.sif_2012, out.sif_2023)
    /\ out.sif_2012.rows > 1 /\ out.sif_2012.cols > 1
    /\ \E i, j \in 1..Len(out.sif_2012.data) :
          /\ out.sif_2012.data[i].nan /\ ~out.sif_2023.data[i].nan
          /\ out.pct_anomaly.data[i].nan
          /\ ~out.pct_anomaly.data[j].nan
          /\ out.pct_anomaly.data[j].n # 0

RECURSIVE RawSumInRange(_, _)
RawSumInRange(raw, i) ==
    IF i = 0 THEN 0
    ELSE RawSumInRange(raw, i - 1) + (IF RawInRange(raw[i]) THEN raw[i] ELSE 0)

RawCountInRange(raw) == Cardinality({i \in 1..Len(raw) : RawInRange(raw[i])})

\* the series entry e is what the file calls for: None for no file, NaN for
\* a file with no sample in range, else the mean of its samples in range
EntryMatchesFile(e, file) ==
    IF ~file.exists THEN e.none
    ELSE /\ ~e.none
         /\ IF RawCountInRange(file.data) = 0 THEN e.val.nan
            ELSE e.val = Rat(RawSumInRange(file.data, Len(file.data)),
                             10000 * RawCountInRange(file.data))

SeriesMatchesDisk(ts, year) ==
    /\ Len(ts) = Len(JULY_DOYS)
    /\ \A i \in 1..Len(JULY_DOYS) :
          EntryMatchesFile(ts[i], disk[<<year, JULY_DOYS[i]>>])

\* C8: get_timeseries returns one entry per day of JULY_DOYS, in that
\* order; entry i is None iff the file of the i-th day is absent, and is
\* otherwise the mean of the valid samples of that day's grid.
C8_TimeSeries ==
    /\ \A y \in DOMAIN ts_cache : SeriesMatchesDisk(ts_cache[y], y)
    /\ "ts12" \in out.done => SeriesMatchesDisk(out.ts_2012, DROUGHT_YEAR)
    /\ "ts23" \in out.done => SeriesMatchesDisk(out.ts_2023, NORMAL_YEAR)
    /\ out.finished => {"ts12", "ts23"} \subseteq out.done

\* a series with a None entry, and two entries that are different means,
\* one of them of a grid with a masked sample
C8_Witness ==
    /\ "ts12" \in out.done
    /\ \E i, j, l \in 1..Len(JULY_DOYS) :
          /\ out.ts_2012[i].none
          /\ ~out.ts_2012[j].none /\ ~out.ts_2012[j].val.nan
          /\ ~out.ts_2012[l].none /\ ~out.ts_2012[l].val.nan
          /\ out.ts_2012[j].val # out.ts_2012[l].val
          /\ \E c \in 1..Len(load_cache[<<DROUGHT_YEAR, JULY_DOYS[j]>>].data) :
                load_cache[<<DROUGHT_YEAR, JULY_DOYS[j]>>].data[c].nan

AllNaN(g) == \A i \in 1..Len(g.data) : g.data[i].nan

\* C4: when the two loaded grids of the selected date differ in shape, the
\* comparison fails: the run ends with an error and shows no anomaly map,
\* no summary percent and no stress classification.
C4_ShapeMismatchFails ==
    RunOver /\ BothShown /\ ~SameDims(out.sif_2012, out.sif_2023) =>
        /\ out.error # "none"
        /\ ~out.anomaly
        /\ ~out.metrics.shown

\* C5: a grid with no valid sample has no mean: the top metrics show no
\* summary percent and no stress classification computed from it, and no
\* row of the statistics table is computed from it.
C5_EmptyMeanIsMissing ==
    /\ BothShown /\ (AllNaN(out.sif_2012) \/ AllNaN(out.sif_2023)) =>
          ~out.metrics.shown
    /\ out.right.done =>
          \A r \in 1..Len(out.right.stats_data) :
              /\ ~out.right.stats_data[r].sif_2012.nan
              /\ ~out.right.stats_data[r].sif_2023.nan

\* C7: a grid compared against itself gives an anomaly map that is 0 at
\* every valid position, a summary percent of 0 and the class NORMAL.
C7_SelfComparison ==
    RunOver /\ BothShown /\ out.sif_2012 = out.sif_2023 =>
        /\ out.anomaly
        /\ \A i \in 1..Len(out.sif_2012.data) :
              ~out.sif_2012.data[i].nan => out.pct_anomaly.data[i] = Int2F(0)
        /\ out.metrics.shown
        /\ out.metrics.pct_diff = Int2F(0)
        /\ out.metrics.stress_level = "NORMAL"

\* the unmemoized read of the file of key k as it is on disk now
ReadNow(k) == LoadBody(disk, k)

\* the unmemoized read of the file of key k as it was when the loader's
\* body ran for k (as it is now, if it has not changed since)
ReadThen(k) ==
    IF k \in DOMAIN snap THEN LoadBody([disk EXCEPT ![k] = snap[k]], k)
    ELSE LoadBody(disk, k)

\* every memoized series entry is the mean of what load_sif_data returns
\* for its key in this state (the key is memoized: the call is a hit)
SeriesMatchLoader ==
    \A y \in DOMAIN ts_cache :
        /\ Len(ts_cache[y]) = Len(JULY_DOYS)
        /\ \A i \in 1..Len(JULY_DOYS) :
              /\ <<y, JULY_DOYS[i]>> \in DOMAIN load_cache
              /\ LET g == load_cache[<<y, JULY_DOYS[i]>>]
                     e == ts_cache[y][i]
                 IN  IF g.none THEN e.none
                     ELSE /\ ~e.none
                          /\ IF AllNaN(g) THEN e.val.nan
                             ELSE e.val = FDivInt(SumValid(g.data, Len(g.data)),
                                                  CountValid(g.data))

\* C9 as stated: whatever has happened to the data files, a call of
\* load_sif_data returns what an unmemoized read of the file as it is now
\* returns (a memoized key is answered from the memo table), and a series
\* entry is the mean of what load_sif_data returns.
C9_MemoIsReadOfDisk ==
    /\ \A k \in DOMAIN load_cache : load_cache[k] = ReadNow(k)
    /\ "load12" \in out.done =>
          out.sif_2012 = ReadNow(SelKey(DROUGHT_YEAR))
    /\ SeriesMatchLoader

\* C9 amended: a call of load_sif_data that returns returns what an
\* unmemoized read returned when the loader's body ran for the key (the
\* memo table is never invalidated), hence the read of the file as it is
\* now as long as the file has not changed since; a call raises only when
\* the file has gone between the os.path.exists test and rasterio.open, and
\* then memoizes nothing; a series entry is the mean of what load_sif_data
\* returns for its key.
C9_MemoIsReadAtFirstLoad ==
    /\ \A k \in DOMAIN load_cache :
          load_cache[k] = IF k \in DOMAIN snap THEN ReadThen(k) ELSE ReadNow(k)
    /\ "load12" \in out.done =>
          /\ SelKey(DROUGHT_YEAR) \in DOMAIN load_cache
          /\ out.sif_2012 = load_cache[SelKey(DROUGHT_YEAR)]
    /\ "load23" \in out.done =>
          /\ SelKey(NORMAL_YEAR) \in DOMAIN load_cache
          /\ out.sif_2023 = load_cache[SelKey(NORMAL_YEAR)]
    /\ out.error = "RasterioIOError" =>
          /\ changes > 0
          /\ \E k \in opened : k \notin DOMAIN load_cache
    /\ SeriesMatchLoader

\* a file changed after it was memoized and a later run has loaded it: the
\* call returned the old read, which differs from the read of the file as
\* it is now
C9_Witness ==
    /\ runs > 1
    /\ "load12" \in out.done
    /\ SelKey(DROUGHT_YEAR) \in DOMAIN snap
    /\ out.sif_2012 # ReadNow(SelKey(DROUGHT_YEAR))
    /\ out.sif_2012 = ReadThen(SelKey(DROUGHT_YEAR))
    /\ ts_cache # EmptyFn

\* a file has gone between the os.path.exists test and rasterio.open: the
\* run ended with the I/O error before anything was memoized or shown
C9_WitnessGone ==
    /\ out.error = "RasterioIOError"
    /\ run.at = "idle"
    /\ load_cache = EmptyFn
    /\ ts_cache = EmptyFn
    /\ ~out.metrics.shown
    /\ ~out.right.done

FilePresent(year, doy) == disk[<<year, doy>>].exists

\* C10: a run never applies arithmetic or rendering to None and is not
\* ended by an absent file: the top metrics are shown iff both grids of the
\* selected date are present, each image iff its grid is present, the
\* anomaly map iff both are present (and their shapes can be combined: the
\* only exception that ends a run is the shape error of two present
\* grids); the run reaches its end otherwise; the plot has NaN where an
\* entry is None, the fill is drawn only if no entry is None, and every row
\* of the table is of a date whose two files are present.
C10_AbsentNeverRaises ==
    out.ran =>
        LET p12 == FilePresent(DROUGHT_YEAR, out.selected_doy)
            p23 == FilePresent(NORMAL_YEAR, out.selected_doy)
            shapesOk ==
                LET a == disk[SelKey(DROUGHT_YEAR)]
                    b == disk[SelKey(NORMAL_YEAR)]
                IN  /\ a.rows = b.rows \/ a.rows = 1 \/ b.rows = 1
                    /\ a.cols = b.cols \/ a.cols = 1 \/ b.cols = 1
            r == out.right
        IN  /\ out.error \in {"none", "ValueError"}
            /\ out.error = "ValueError" <=>
                  /\ run.at = "idle"
                  /\ p12 /\ p23 /\ ~shapesOk
            /\ run.at = "idle" /\ out.error = "none" => out.finished
            /\ out.finished =>
                  out.done = {"load12", "load23", "metrics", "images",
                              "anomaly", "ts12", "ts23", "right"}
            /\ "load12" \in out.done => (out.sif_2012.none <=> ~p12)
            /\ "load23" \in out.done => (out.sif_2023.none <=> ~p23)
            /\ out.metrics.shown <=> "metrics" \in out.done /\ p12 /\ p23
            /\ out.image_2012 <=> "images" \in out.done /\ p12
            /\ out.image_2023 <=> "images" \in out.done /\ p23
            /\ out.anomaly <=> "anomaly" \in out.done /\ p12 /\ p23
            /\ "anomaly" \in out.done /\ p12 /\ p23 => shapesOk
            /\ r.done <=> out.finished
            /\ r.done =>
                  /\ \A i \in 1..Len(JULY_DOYS) :
                        /\ ~FilePresent(DROUGHT_YEAR, JULY_DOYS[i]) =>
                              out.ts_2012[i].none /\ r.ts_2012_clean[i].nan
                        /\ ~FilePresent(NORMAL_YEAR, JULY_DOYS[i]) =>
                              out.ts_2023[i].none /\ r.ts_2023_clean[i].nan
                  /\ r.fill =>
                        \A i \in 1..Len(JULY_DOYS) :
                            /\ FilePresent(DROUGHT_YEAR, JULY_DOYS[i])
                            /\ FilePresent(NORMAL_YEAR, JULY_DOYS[i])
                  /\ \A n \in 1..Len(r.stats_data) :
                        \E i \in 1..Len(JULY_DOYS) :
                            /\ r.stats_data[n].Date = DOY_LABELS[JULY_DOYS[i]]
                            /\ FilePresent(DROUGHT_YEAR, JULY_DOYS[i])
                            /\ FilePresent(NORMAL_YEAR, JULY_DOYS[i])
                  /\ \A i \in 1..Len(JULY_DOYS) :
                        ~(FilePresent(DROUGHT_YEAR, JULY_DOYS[i])
                          /\ FilePresent(NORMAL_YEAR, JULY_DOYS[i])) =>
                            \A n \in 1..Len(r.stats_data) :
                                r.stats_data[n].Date # DOY_LABELS[JULY_DOYS[i]]

\* a finished run with the 2012 file of the selected date absent and the
\* 2023 file present: one image, no metrics, no anomaly map, a gap in the
\* plot, no fill, and a table with some rows but not all
C10_Witness ==
    /\ out.finished
    /\ out.error = "none"
    /\ ~FilePresent(DROUGHT_YEAR, out.selected_doy)
    /\ FilePresent(NORMAL_YEAR, out.selected_doy)
    /\ out.image_2023 /\ ~out.image_2012
    /\ ~out.metrics.shown /\ ~out.anomaly
    /\ out.right.done
    /\ ~out.right.fill
    /\ Len(out.right.stats_data) > 0
    /\ Len(out.right.stats_data) < Len(JULY_DOYS) - 1

====
